---------------------------- MODULE Spec2Model ----------------------------
(***************************************************************************)
(* Session protocol of mould (src/src/session.rs): the Context that owns   *)
(* one Flow and one Session, its receive wrappers, the decoder recv and    *)
(* the encoder send.                                                       *)
(*                                                                         *)
(* Wire text is modelled as a JSON syntax tree (objects are sequences of   *)
(* members, so field order and repeated keys exist on the wire) or as      *)
(* text that is no JSON document.  serde_json's Value is modelled apart    *)
(* from it (objects are maps), with from_str and to_string converting      *)
(* between the two.                                                        *)
(***************************************************************************)
EXTENDS Integers, Sequences, FiniteSets, TLC

(***************************************************************************)
(* Bounds of the model.                                                    *)
(***************************************************************************)
\* width, in bits, that stands for the 64 bits of u64 (serde_json's PosInt)
U64Bits == 4
\* number of Context operations followed in one behaviour
MaxOps == 2
\* number of texts a client writes to a Flow that is followed
MaxWire == 3
\* number of Context operations followed on a Flow that is followed
MaxFlowOps == 3
\* number of pulls and pushes followed in one task cycle
MaxSteps == 5

Pow2(n) == 2 ^ n

\* pointer widths of the build targets: usize is as wide as u64 (64-bit
\* targets) or half as wide (32-bit targets)
UsizeWidths == {U64Bits \div 2, U64Bits}

(***************************************************************************)
(* Option and Result.                                                      *)
(***************************************************************************)
None == [some |-> FALSE]
Some(x) == [some |-> TRUE, v |-> x]
Ok(x) == [ok |-> TRUE, v |-> x]
Err(e) == [ok |-> FALSE, e |-> e]

(***************************************************************************)
(* Wire text: JSON syntax.                                                 *)
(***************************************************************************)
TNull == [t |-> "null"]
TBool(b) == [t |-> "bool", b |-> b]
\* a number literal: sign, integer magnitude, and whether it has a fraction
TNum(neg, mag, frac) == [t |-> "num", neg |-> neg, mag |-> mag, frac |-> frac]
TInt(n) == TNum(FALSE, n, FALSE)
TStr(s) == [t |-> "str", s |-> s]
TArr(a) == [t |-> "arr", a |-> a]
\* an object literal: its members <<key, syntax>> in the order written
TObj(m) == [t |-> "obj", m |-> m]
\* text that is not one JSON document
TBad(why) == [t |-> "bad", why |-> why]

(***************************************************************************)
(* serde_json::Value.                                                      *)
(***************************************************************************)
Null == [t |-> "Null"]
Bool(b) == [t |-> "Bool", b |-> b]
\* Number: PosInt(u64), NegInt(i64) or Float(f64)
PosInt(n) == [t |-> "Number", k |-> "PosInt", n |-> n, frac |-> FALSE]
NegInt(n) == [t |-> "Number", k |-> "NegInt", n |-> n, frac |-> FALSE]
Float(n, frac) == [t |-> "Number", k |-> "Float", n |-> n, frac |-> frac]
String(s) == [t |-> "String", s |-> s]
Array(a) == [t |-> "Array", a |-> a]
\* Object(Map<String, Value>): the map is a function from keys to Values
Object(o) == [t |-> "Object", o |-> o]

EmptyMap == [k \in {} |-> Null]
\* Map::insert: a later insert of the same key replaces the value
Insert(o, k, v) == [x \in (DOMAIN o) \cup {k} |-> IF x = k THEN v ELSE o[x]]
\* Map::remove, as far as its returned Option goes
Remove(o, k) == IF k \in DOMAIN o THEN Some(o[k]) ELSE None

\* the number a literal parses to
ParseNumber(x) ==
    IF x.frac THEN Float(IF x.neg THEN 0 - x.mag ELSE x.mag, TRUE)
    ELSE IF ~x.neg
         THEN IF x.mag < Pow2(U64Bits) THEN PosInt(x.mag)
              ELSE Float(x.mag, FALSE)
         ELSE IF x.mag = 0 THEN Float(0, FALSE)
              ELSE IF x.mag <= Pow2(U64Bits - 1) THEN NegInt(0 - x.mag)
                   ELSE Float(0 - x.mag, FALSE)

RECURSIVE ParseValue(_)
RECURSIVE ParseMembers(_)
RECURSIVE ParseElements(_)
\* the Value a syntax tree deserializes to
ParseValue(x) ==
    CASE x.t = "null" -> Null
      [] x.t = "bool" -> Bool(x.b)
      [] x.t = "num" -> ParseNumber(x)
      [] x.t = "str" -> String(x.s)
      [] x.t = "arr" -> Array(ParseElements(x.a))
      [] x.t = "obj" -> Object(ParseMembers(x.m))
ParseMembers(m) ==
    IF m = <<>> THEN EmptyMap
    ELSE LET last == m[Len(m)]
         IN  Insert(ParseMembers(SubSeq(m, 1, Len(m) - 1)), last[1], ParseValue(last[2]))
ParseElements(a) ==
    IF a = <<>> THEN <<>>
    ELSE <<ParseValue(Head(a))>> \o ParseElements(Tail(a))

\* Value::from_str
from_str(content) ==
    IF content.t = "bad" THEN Err("syntax") ELSE Ok(ParseValue(content))


(***************************************************************************)
(* State.                                                                  *)
(***************************************************************************)
VARIABLES
    usizeBits,  \* width of usize (and so of TaskId) on the build target
    session,    \* Context.session, the application's per-connection state
    pulls,      \* number of calls of client.pull() made by the Context
    pushes,     \* number of calls of client.push() made by the Context
    closed,     \* whether a pull of this Context has returned None
    last,       \* the last Context operation: its name, what the Flow
                \* returned or was handed, and the operation's result
    flow,       \* the Flow, when it is followed: the texts the client
                \* wrote, in order, and how many of them were pulled
    caller,     \* the worker layer, when it is followed: its phase and
                \* the number of task cycles it completed
    log         \* the receives made so far, in order

vars == <<usizeBits, session, pulls, pushes, closed, last, flow, caller, log>>

(***************************************************************************)
(* Request, Input, Output, Alternative, Error.                             *)
(***************************************************************************)
Request(action, payload) == [action |-> action, payload |-> payload]

InputRequest(service, request) ==
    [tag |-> "Request", service |-> service, request |-> request]
InputNext(request) == [tag |-> "Next", request |-> request]
InputSuspend == [tag |-> "Suspend"]
InputResume(task_id) == [tag |-> "Resume", task_id |-> task_id]

Ready == [tag |-> "Ready"]
Item(data) == [tag |-> "Item", data |-> data]
Done == [tag |-> "Done"]
Reject(message) == [tag |-> "Reject", message |-> message]
Fail(message) == [tag |-> "Fail", message |-> message]
Suspended(task_id) == [tag |-> "Suspended", task_id |-> task_id]

Usual(x) == [alt |-> "Usual", v |-> x]
Unusual(x) == [alt |-> "Unusual", v |-> x]
Unit == "()"

IllegalJsonFormat == [err |-> "IllegalJsonFormat"]
IllegalEventType == [err |-> "IllegalEventType"]
IllegalEventName(event) == [err |-> "IllegalEventName", event |-> event]
IllegalMessage == [err |-> "IllegalMessage"]
IllegalDataFormat == [err |-> "IllegalDataFormat"]
IllegalTaskId == [err |-> "IllegalTaskId"]
IllegalRequestFormat == [err |-> "IllegalRequestFormat"]
ServiceNotFound == [err |-> "ServiceNotFound"]
DataNotProvided == [err |-> "DataNotProvided"]
UnexpectedState == [err |-> "UnexpectedState"]
Canceled == [err |-> "Canceled"]
ConnectionClosed == [err |-> "ConnectionClosed"]
ConnectorFail(cause) == [err |-> "ConnectorFail", cause |-> cause]
WorkerFailed(cause) == [err |-> "WorkerFailed", cause |-> cause]
WorkerNotFound == [err |-> "WorkerNotFound"]
CannotSuspend == [err |-> "CannotSuspend"]

(***************************************************************************)
(* Context::recv, branch by branch.                                        *)
(***************************************************************************)
IsString(opt) == opt.some /\ opt.v.t = "String"
IsObject(opt) == opt.some /\ opt.v.t = "Object"

\* Number::as_u64: Some for a PosInt, None for a NegInt or a Float
as_u64(number) == IF number.k = "PosInt" THEN Some(number.n) ELSE None

\* the cast `task_id as usize`: the low usizeBits bits of the u64
as_usize(n) == n % Pow2(usizeBits)

\* request decoding that hands out "action" as the service and back
recv_request_swaps_names(data) ==
    LET d == Remove(data, "data")
    IN  IF IsObject(d)
        THEN LET service == Remove(d.v.o, "service")
                 action == Remove(d.v.o, "action")
                 payload == Remove(d.v.o, "payload")
             IN  IF ~IsString(service) THEN Err(IllegalRequestFormat)
                 ELSE IF ~IsString(action) THEN Err(IllegalRequestFormat)
                 ELSE IF ~IsObject(payload) THEN Err(IllegalRequestFormat)
                 ELSE Ok(InputRequest(action.v.s, Request(service.v.s, payload.v.o)))
        ELSE IF d.some THEN Err(IllegalDataFormat)
        ELSE Err(DataNotProvided)

\* request decoding that takes an explicit null for a missing "data"
recv_request_null_as_absent(data) ==
    LET d == Remove(data, "data")
    IN  IF IsObject(d)
        THEN LET service == Remove(d.v.o, "service")
                 action == Remove(d.v.o, "action")
                 payload == Remove(d.v.o, "payload")
             IN  IF ~IsString(service) THEN Err(IllegalRequestFormat)
                 ELSE IF ~IsString(action) THEN Err(IllegalRequestFormat)
                 ELSE IF ~IsObject(payload) THEN Err(IllegalRequestFormat)
                 ELSE Ok(InputRequest(service.v.s, Request(action.v.s, payload.v.o)))
        ELSE IF d.some /\ d.v.t # "Null" THEN Err(IllegalDataFormat)
        ELSE Err(DataNotProvided)

\* event == "request": data is the message's object, "event" removed
recv_request(data) ==
    LET d == Remove(data, "data")
    IN  IF IsObject(d)
        THEN LET service == Remove(d.v.o, "service")
                 action == Remove(d.v.o, "action")
                 payload == Remove(d.v.o, "payload")
             IN  IF ~IsString(service) THEN Err(IllegalRequestFormat)
                 ELSE IF ~IsString(action) THEN Err(IllegalRequestFormat)
                 ELSE IF ~IsObject(payload) THEN Err(IllegalRequestFormat)
                 ELSE Ok(InputRequest(service.v.s, Request(action.v.s, payload.v.o)))
        ELSE IF d.some THEN Err(IllegalDataFormat)
        ELSE Err(DataNotProvided)

\* next decoding without the arm for an explicit null
recv_next_null_is_error(data) ==
    LET d == Remove(data, "data")
    IN  IF IsObject(d)
        THEN LET action == Remove(d.v.o, "action")
                 payload == Remove(d.v.o, "payload")
             IN  IF ~IsString(action) THEN Err(IllegalRequestFormat)
                 ELSE IF ~IsObject(payload) THEN Err(IllegalRequestFormat)
                 ELSE Ok(InputNext(Some(Request(action.v.s, payload.v.o))))
        ELSE IF d.some THEN Err(IllegalDataFormat)
        ELSE Ok(InputNext(None))

\* event == "next"
recv_next(data) ==
    LET d == Remove(data, "data")
    IN  IF IsObject(d)
        THEN LET action == Remove(d.v.o, "action")
                 payload == Remove(d.v.o, "payload")
             IN  IF ~IsString(action) THEN Err(IllegalRequestFormat)
                 ELSE IF ~IsObject(payload) THEN Err(IllegalRequestFormat)
                 ELSE Ok(InputNext(Some(Request(action.v.s, payload.v.o))))
        ELSE IF d.some /\ d.v.t = "Null" THEN Ok(InputNext(None))
        ELSE IF d.some THEN Err(IllegalDataFormat)
        ELSE Ok(InputNext(None))

\* event == "resume"
recv_resume(data) ==
    LET d == Remove(data, "data")
    IN  IF d.some /\ d.v.t = "Number"
        THEN LET task_id == as_u64(d.v)
             IN  IF task_id.some THEN Ok(InputResume(as_usize(task_id.v)))
                 ELSE Err(IllegalTaskId)
        ELSE Err(IllegalDataFormat)

\* event == "suspend"
recv_suspend(data) == Ok(InputSuspend)

\* cancel that insists on a message without data
recv_cancel_checks_data(data) ==
    IF "data" \in DOMAIN data THEN Err(IllegalDataFormat) ELSE Err(Canceled)

\* event == "cancel"
recv_cancel(data) == Err(Canceled)

\* an unknown event name reported without the name the client sent
recv_other_drops_name(event) == Err(IllegalEventName("bogus"))

\* any other event name
recv_other(event) == Err(IllegalEventName(event))

\* the dispatch on the event name
recv_event(event, data) ==
    IF event = "request" THEN recv_request(data)
    ELSE IF event = "next" THEN recv_next(data)
    ELSE IF event = "resume" THEN recv_resume(data)
    ELSE IF event = "suspend" THEN recv_suspend(data)
    ELSE IF event = "cancel" THEN recv_cancel(data)
    ELSE recv_other(event)

\* decoding that reports JSON whose top level is no object as IllegalMessage
recv_content_illegal_message(content) ==
    LET parsed == from_str(content)
    IN  IF parsed.ok /\ parsed.v.t = "Object"
        THEN LET event == Remove(parsed.v.o, "event")
                 data == [k \in (DOMAIN parsed.v.o) \ {"event"} |-> parsed.v.o[k]]
             IN  IF IsString(event) THEN recv_event(event.v.s, data)
                 ELSE Err(IllegalEventType)
        ELSE IF parsed.ok THEN Err(IllegalMessage)
        ELSE Err(IllegalJsonFormat)

\* decoding that reports a missing or non-string "event" as bad JSON
recv_content_event_as_json(content) ==
    LET parsed == from_str(content)
    IN  IF parsed.ok /\ parsed.v.t = "Object"
           /\ IsString(Remove(parsed.v.o, "event"))
        THEN recv_event(parsed.v.o["event"].s,
                        [k \in (DOMAIN parsed.v.o) \ {"event"} |-> parsed.v.o[k]])
        ELSE Err(IllegalJsonFormat)

\* the decoding of one pulled text
recv_content(content) ==
    LET parsed == from_str(content)
    IN  IF parsed.ok /\ parsed.v.t = "Object"
        THEN LET event == Remove(parsed.v.o, "event")
                 data == [k \in (DOMAIN parsed.v.o) \ {"event"} |-> parsed.v.o[k]]
             IN  IF IsString(event) THEN recv_event(event.v.s, data)
                 ELSE Err(IllegalEventType)
        ELSE Err(IllegalJsonFormat)

\* recv that reports every transport fault with the same cause
recv_loses_cause(pulled) ==
    IF ~pulled.ok THEN Err(ConnectorFail("io"))
    ELSE IF pulled.v.some THEN recv_content(pulled.v.v)
    ELSE Err(ConnectionClosed)

\* Context::recv on what client.pull() returned:
\* Ok(Some(content)), Ok(None) or Err(cause)
recv(pulled) ==
    IF ~pulled.ok THEN Err(ConnectorFail(pulled.e))
    ELSE IF pulled.v.some THEN recv_content(pulled.v.v)
    ELSE Err(ConnectionClosed)

\* recv_request_or_resume without the phase check on Next
recv_request_or_resume_passes_next(r) ==
    IF r.ok /\ r.v.tag = "Request" THEN Ok(Usual(<<r.v.service, r.v.request>>))
    ELSE IF r.ok /\ r.v.tag = "Resume" THEN Ok(Unusual(r.v.task_id))
    ELSE IF r.ok /\ r.v.tag = "Next" THEN Ok(Usual(<<"", r.v.request>>))
    ELSE IF r.ok THEN Err(UnexpectedState)
    ELSE Err(r.e)

\* Context::recv_request_or_resume, on the result of recv
recv_request_or_resume(r) ==
    IF r.ok /\ r.v.tag = "Request" THEN Ok(Usual(<<r.v.service, r.v.request>>))
    ELSE IF r.ok /\ r.v.tag = "Resume" THEN Ok(Unusual(r.v.task_id))
    ELSE IF r.ok THEN Err(UnexpectedState)
    ELSE Err(r.e)

\* recv_next_or_suspend that reports every failure as UnexpectedState
recv_next_or_suspend_hides_errors(r) ==
    IF r.ok /\ r.v.tag = "Next" THEN Ok(Usual(r.v.request))
    ELSE IF r.ok /\ r.v.tag = "Suspend" THEN Ok(Unusual(Unit))
    ELSE Err(UnexpectedState)

\* recv_next_or_suspend of a Context that keeps a phase of its own: a Next
\* is refused until the Context has sent something
recv_next_or_suspend_tracks_phase(r) ==
    IF r.ok /\ r.v.tag = "Next" /\ pushes = 0 THEN Err(UnexpectedState)
    ELSE IF r.ok /\ r.v.tag = "Next" THEN Ok(Usual(r.v.request))
    ELSE IF r.ok /\ r.v.tag = "Suspend" THEN Ok(Unusual(Unit))
    ELSE IF r.ok THEN Err(UnexpectedState)
    ELSE Err(r.e)

\* recv_next_or_suspend that takes a Resume for a Suspend
recv_next_or_suspend_passes_resume(r) ==
    IF r.ok /\ r.v.tag = "Next" THEN Ok(Usual(r.v.request))
    ELSE IF r.ok /\ r.v.tag \in {"Suspend", "Resume"} THEN Ok(Unusual(Unit))
    ELSE IF r.ok THEN Err(UnexpectedState)
    ELSE Err(r.e)

\* Context::recv_next_or_suspend, on the result of recv
recv_next_or_suspend(r) ==
    IF r.ok /\ r.v.tag = "Next" THEN Ok(Usual(r.v.request))
    ELSE IF r.ok /\ r.v.tag = "Suspend" THEN Ok(Unusual(Unit))
    ELSE IF r.ok THEN Err(UnexpectedState)
    ELSE Err(r.e)

(***************************************************************************)
(* Context::send.                                                          *)
(***************************************************************************)
\* the keys of the model in the order a Map iterates them (sorted)
KeyOrder == <<"action", "data", "event", "payload", "service", "x", "y">>

RECURSIVE Serialize(_)
\* the text of a Value: an object's members in the Map's key order
Serialize(v) ==
    CASE v.t = "Null" -> TNull
      [] v.t = "Bool" -> TBool(v.b)
      [] v.t = "Number" ->
            TNum(v.n < 0, IF v.n < 0 THEN 0 - v.n ELSE v.n, v.frac)
      [] v.t = "String" -> TStr(v.s)
      [] v.t = "Array" -> TArr([i \in DOMAIN v.a |-> Serialize(v.a[i])])
      [] v.t = "Object" ->
            LET keys == SelectSeq(KeyOrder, LAMBDA k : k \in DOMAIN v.o)
            IN  TObj([i \in DOMAIN keys |-> <<keys[i], Serialize(v.o[keys[i]])>>])

\* Value::to_string
to_string(json) == Serialize(json)

\* encoding in which Fail carries the event name of Reject
send_json_fail_as_reject(out) ==
    CASE out.tag = "Item" ->
            Object(Insert(Insert(EmptyMap, "event", String("item")),
                          "data", Object(out.data)))
      [] out.tag = "Ready" ->
            Object(Insert(EmptyMap, "event", String("ready")))
      [] out.tag = "Done" ->
            Object(Insert(EmptyMap, "event", String("done")))
      [] out.tag \in {"Reject", "Fail"} ->
            Object(Insert(Insert(EmptyMap, "event", String("reject")),
                          "data", String(out.message)))
      [] out.tag = "Suspended" ->
            Object(Insert(Insert(EmptyMap, "event", String("suspended")),
                          "data", PosInt(out.task_id)))

\* the Value the json! macro builds for an Output
send_json(out) ==
    CASE out.tag = "Item" ->
            Object(Insert(Insert(EmptyMap, "event", String("item")),
                          "data", Object(out.data)))
      [] out.tag = "Ready" ->
            Object(Insert(EmptyMap, "event", String("ready")))
      [] out.tag = "Done" ->
            Object(Insert(EmptyMap, "event", String("done")))
      [] out.tag = "Reject" ->
            Object(Insert(Insert(EmptyMap, "event", String("reject")),
                          "data", String(out.message)))
      [] out.tag = "Fail" ->
            Object(Insert(Insert(EmptyMap, "event", String("fail")),
                          "data", String(out.message)))
      [] out.tag = "Suspended" ->
            Object(Insert(Insert(EmptyMap, "event", String("suspended")),
                          "data", PosInt(out.task_id)))

\* the text send hands to client.push
send_content(out) == to_string(send_json(out))

\* the result of send, on what client.push() returned: Ok(()) or Err(cause)
send(pushed) ==
    IF pushed.ok THEN Ok(Unit) ELSE Err(ConnectorFail(pushed.e))

(***************************************************************************)
(* The Flow: what pull and push may return, and the texts a client may     *)
(* put on the wire.                                                        *)
(***************************************************************************)
Absent == [t |-> "absent"]
Member(k, x) == IF x.t = "absent" THEN <<>> ELSE <<<<k, x>>>>

PayloadX == TObj(<<<<"x", TInt(1)>>>>)
\* a payload with nested values: {"y":[-1.5,"s"],"x":{"y":null}}
PayloadNested ==
    TObj(<<<<"y", TArr(<<TNum(TRUE, 1, TRUE), TStr("s")>>)>>,
           <<"x", TObj(<<<<"y", TNull>>>>)>>>>)
PayloadTexts == {TObj(<<>>), PayloadX}
ServiceOpts == {Absent, TStr("svc"), TInt(1)}
ActionOpts == {Absent, TStr("act"), TNull}
PayloadOpts == {Absent, TStr("p")} \cup PayloadTexts

RequestData(s, a, p) ==
    TObj(Member("service", s) \o Member("action", a) \o Member("payload", p))
GoodData == RequestData(TStr("svc"), TStr("act"), PayloadX)

\* "data" objects: every mix of present, missing and wrong-typed fields,
\* then empty strings, another field order, an extra field, a repeated key
DataObjects ==
    {RequestData(s, a, p) : s \in ServiceOpts, a \in ActionOpts, p \in PayloadOpts}
    \cup {RequestData(TStr("svc"), TStr("act"), PayloadNested),
          RequestData(TStr(""), TStr("act"), PayloadX),
          RequestData(TStr("svc"), TStr(""), PayloadX),
          TObj(<<<<"payload", PayloadX>>, <<"action", TStr("act")>>,
                 <<"service", TStr("svc")>>>>),
          TObj(<<<<"service", TStr("svc")>>, <<"y", TBool(TRUE)>>,
                 <<"action", TStr("act")>>, <<"payload", PayloadX>>>>),
          TObj(<<<<"service", TStr("svc")>>, <<"action", TStr("act")>>,
                 <<"payload", TStr("p")>>, <<"payload", TObj(<<<<"x", TNull>>>>)>>>>)}

\* "data" numbers: around zero, around the usize widths, around the u64
\* width, negative, fractional
DataNumbers ==
    {TInt(0), TInt(1), TInt(Pow2(U64Bits) - 1), TInt(Pow2(U64Bits)),
     TNum(TRUE, 1, FALSE), TNum(TRUE, 0, FALSE), TNum(FALSE, 1, TRUE),
     TNum(TRUE, Pow2(U64Bits), FALSE)}
    \cup {TInt(Pow2(w) - 1) : w \in UsizeWidths}
    \cup {TInt(Pow2(w) + 1) : w \in UsizeWidths}

DataOthers == {TNull, TBool(TRUE), TStr("x"), TArr(<<TInt(1)>>)}

EventNames == {"request", "next", "resume", "suspend", "cancel"}
OtherNames == {"bogus", "", "Cancel", "ready"}

Message(e, d) == TObj(Member("event", e) \o Member("data", d))

Texts ==
    \* the two events that read an object from "data"
    {Message(TStr(e), d) : e \in {"request", "next"},
        d \in {Absent, TInt(1)} \cup DataObjects \cup DataOthers}
    \* resume, which reads a number
    \cup {Message(TStr("resume"), d) :
            d \in {Absent, GoodData} \cup DataNumbers \cup DataOthers}
    \* the events that read no data, and the names that are no event
    \cup {Message(TStr(e), d) : e \in {"suspend", "cancel"} \cup OtherNames,
            d \in {Absent, GoodData, TInt(1), TNull}}
    \* "event" missing or not a string
    \cup {Message(e, d) : e \in {Absent, TNull, TInt(1), TArr(<<TStr("cancel")>>),
                                 TObj(<<<<"event", TStr("cancel")>>>>)},
            d \in {Absent, GoodData}}
    \* another field order, an extra field, a repeated "event"
    \cup {TObj(<<<<"data", GoodData>>, <<"event", TStr(e)>>>>) : e \in EventNames}
    \cup {TObj(<<<<"event", TStr(e)>>, <<"x", TInt(1)>>>>) : e \in EventNames}
    \cup {TObj(<<<<"event", TStr("next")>>, <<"event", TStr("cancel")>>>>),
          TObj(<<<<"event", TStr("cancel")>>, <<"event", TStr("request")>>,
                 <<"data", GoodData>>>>)}
    \* JSON whose top level is no object
    \cup {TNull, TBool(FALSE), TInt(1), TStr("cancel"),
          TArr(<<Message(TStr("cancel"), Absent)>>)}
    \* text that is no JSON document
    \cup {TBad("syntax"), TBad("empty"), TBad("trailing characters")}

\* flow::Error values
FlowErrors == {"io", "timeout"}

\* what client.pull() may return
Pulls == {Ok(Some(t)) : t \in Texts} \cup {Ok(None)} \cup {Err(c) : c \in FlowErrors}
\* what client.push() may return
Pushes == {Ok(Unit)} \cup {Err(c) : c \in FlowErrors}

\* the Outputs a caller may send
Maps == {EmptyMap, Insert(EmptyMap, "x", PosInt(1)),
         Insert(Insert(EmptyMap, "event", String("done")), "y", Null)}
Messages == {"", "no"}
Outputs ==
    {Ready, Done}
    \cup {Item(m) : m \in Maps}
    \cup {Reject(m) : m \in Messages}
    \cup {Fail(m) : m \in Messages}
    \cup {Suspended(i) : i \in {0, 1, Pow2(usizeBits) - 1}}

(***************************************************************************)
(* Operations of the Context.                                              *)
(***************************************************************************)
NoCall == [call |-> FALSE]

Ops == pulls + pushes + session

\* Context::new: no I/O; the Session is the one Builder::build made
Init ==
    /\ usizeBits \in UsizeWidths
    /\ session = 0
    /\ pulls = 0
    /\ pushes = 0
    /\ closed = FALSE
    /\ last = [op |-> "new", pulled |-> NoCall, out |-> NoCall,
               content |-> NoCall, pushed |-> NoCall, res |-> NoCall]
    /\ flow = [wire |-> <<>>, at |-> 0]
    /\ caller = [phase |-> "AwaitingTask", done |-> 0]
    /\ log = <<>>

\* a receive that answers what it pulled with a push of its own
Receive_with_ack(op, pulled, res) ==
    /\ Ops < MaxOps
    /\ pulls' = pulls + 1
    /\ pushes' = pushes + 1
    /\ closed' = (closed \/ (pulled.ok /\ ~pulled.v.some))
    /\ last' = [op |-> op, pulled |-> pulled, out |-> NoCall,
                content |-> NoCall, pushed |-> NoCall, res |-> res]
    /\ UNCHANGED <<usizeBits, session, flow, caller, log>>

\* a receive wrapper pulls once and reports on what it pulled
Receive(op, pulled, res) ==
    /\ Ops < MaxOps
    /\ pulls' = pulls + 1
    /\ closed' = (closed \/ (pulled.ok /\ ~pulled.v.some))
    /\ last' = [op |-> op, pulled |-> pulled, out |-> NoCall,
                content |-> NoCall, pushed |-> NoCall, res |-> res]
    /\ UNCHANGED <<usizeBits, session, pushes, flow, caller, log>>

RecvRequestOrResume ==
    \E pulled \in Pulls :
        Receive("recv_request_or_resume", pulled, recv_request_or_resume(recv(pulled)))

RecvNextOrSuspend ==
    \E pulled \in Pulls :
        Receive("recv_next_or_suspend", pulled, recv_next_or_suspend(recv(pulled)))

Send ==
    \E out \in Outputs, pushed \in Pushes :
        /\ Ops < MaxOps
        /\ pushes' = pushes + 1
        /\ last' = [op |-> "send", pulled |-> NoCall, out |-> out,
                    content |-> send_content(out), pushed |-> pushed,
                    res |-> send(pushed)]
        /\ UNCHANGED <<usizeBits, session, pulls, closed, flow, caller, log>>

\* the caller writes the Session through the Context (DerefMut)
DerefMut ==
    /\ Ops < MaxOps
    /\ session' = session + 1
    /\ UNCHANGED <<usizeBits, pulls, pushes, closed, last, flow, caller, log>>

\* any caller, any Flow: each operation may be called at any time and
\* pull and push may return anything; the Flow's queue, the caller's
\* phase and the log are not followed
Next ==
    \/ RecvRequestOrResume
    \/ RecvNextOrSuspend
    \/ Send
    \/ DerefMut

Spec == Init /\ [][Next]_vars

(***************************************************************************)
(* The Flow followed: the client's texts come out of pull in the order     *)
(* written, each once, and then the Flow reports its close.                *)
(***************************************************************************)
WireTexts ==
    {Message(TStr("request"), GoodData), Message(TStr("next"), Absent),
     Message(TStr("suspend"), Absent), Message(TStr("resume"), TInt(1)),
     Message(TStr("cancel"), Absent), TBad("syntax")}
Wires(n) == UNION {[1 .. k -> WireTexts] : k \in 0 .. n}
WireOutputs == {Ready, Item(Insert(EmptyMap, "x", PosInt(1))), Done}

\* Flow::pull: the next text, or None once the client's texts are used up
flow_pull(f) ==
    IF f.at < Len(f.wire) THEN Ok(Some(f.wire[f.at + 1])) ELSE Ok(None)

\* a receive that pulls again after a message it refuses as out of phase
pulls_of_skipping(res) ==
    IF ~res.ok /\ res.e.err = "UnexpectedState" THEN 2 ELSE 1

\* the calls of client.pull() one receive makes, whatever its result
pulls_of(res) == 1

Wrapper(op, r) ==
    IF op = "recv_request_or_resume" THEN recv_request_or_resume(r)
    ELSE recv_next_or_suspend(r)

\* a receive wrapper on the followed Flow
Received(op) ==
    LET pulled == flow_pull(flow)
        res == Wrapper(op, recv(pulled))
    IN  /\ pulls' = pulls + pulls_of(res)
        /\ flow' = [flow EXCEPT !.at = @ + pulls_of(res)]
        /\ closed' = (closed \/ ~pulled.v.some)
        /\ last' = [op |-> op, pulled |-> pulled, out |-> NoCall,
                    content |-> NoCall, pushed |-> NoCall, res |-> res]
        /\ log' = Append(log, [op |-> op, pulled |-> pulled, res |-> res])
        /\ UNCHANGED <<usizeBits, session, pushes>>

\* send on the followed Flow
Sent(out, pushed) ==
    /\ pushes' = pushes + 1
    /\ last' = [op |-> "send", pulled |-> NoCall, out |-> out,
                content |-> send_content(out), pushed |-> pushed,
                res |-> send(pushed)]
    /\ UNCHANGED <<usizeBits, session, pulls, closed, flow, log>>

InitFlow ==
    /\ usizeBits \in UsizeWidths
    /\ session = 0
    /\ pulls = 0
    /\ pushes = 0
    /\ closed = FALSE
    /\ last = [op |-> "new", pulled |-> NoCall, out |-> NoCall,
               content |-> NoCall, pushed |-> NoCall, res |-> NoCall]
    /\ flow \in {[wire |-> w, at |-> 0] : w \in Wires(MaxWire)}
    /\ caller = [phase |-> "AwaitingTask", done |-> 0]
    /\ log = <<>>

FlowRecvRequestOrResume ==
    /\ Ops < MaxFlowOps
    /\ Received("recv_request_or_resume")
    /\ UNCHANGED caller

FlowRecvNextOrSuspend ==
    /\ Ops < MaxFlowOps
    /\ Received("recv_next_or_suspend")
    /\ UNCHANGED caller

FlowSend ==
    \E out \in WireOutputs :
        /\ Ops < MaxFlowOps
        /\ Sent(out, Ok(Unit))
        /\ UNCHANGED caller

FlowDerefMut ==
    /\ Ops < MaxFlowOps
    /\ session' = session + 1
    /\ UNCHANGED <<usizeBits, pulls, pushes, closed, last, flow, caller, log>>

\* any caller on a Flow that is followed
NextFlow ==
    \/ FlowRecvRequestOrResume
    \/ FlowRecvNextOrSuspend
    \/ FlowSend
    \/ FlowDerefMut

SpecFlow == InitFlow /\ [][NextFlow]_vars

(***************************************************************************)
(* The worker layer as a caller that follows the task cycle:               *)
(* AwaitingTask, TaskStarted, Streaming and back, with the suspend,        *)
(* reject and terminate edges.                                             *)
(***************************************************************************)
Steps == pulls + pushes

\* the phase after a receive: an accepted value goes on, Canceled and
\* UnexpectedState are answered with a Reject, any other error ends the
\* connection
AfterReceive(res, usual, unusual) ==
    IF res.ok THEN (IF res.v.alt = "Usual" THEN usual ELSE unusual)
    ELSE IF res.e.err \in {"Canceled", "UnexpectedState"} THEN "Rejecting"
    ELSE "Terminated"
\* the phase after a send: a transport fault ends the connection
AfterSend(res, phase) == IF res.ok THEN phase ELSE "Terminated"

InitCycle ==
    /\ usizeBits \in UsizeWidths
    /\ session = 0
    /\ pulls = 0
    /\ pushes = 0
    /\ closed = FALSE
    /\ last = [op |-> "new", pulled |-> NoCall, out |-> NoCall,
               content |-> NoCall, pushed |-> NoCall, res |-> NoCall]
    /\ flow \in {[wire |-> w, at |-> 0] : w \in Wires(MaxWire)}
    /\ caller = [phase |-> "AwaitingTask", done |-> 0]
    /\ log = <<>>

\* AwaitingTask: the caller asks for a request or a resume
AwaitTask ==
    /\ caller.phase = "AwaitingTask"
    /\ Steps < MaxSteps
    /\ Received("recv_request_or_resume")
    /\ caller' = [caller EXCEPT
                    !.phase = AfterReceive(last'.res, "TaskStarted", "Streaming")]

\* TaskStarted: the server sends Ready
StartTask ==
    \E pushed \in Pushes :
        /\ caller.phase = "TaskStarted"
        /\ Steps < MaxSteps
        /\ Sent(Ready, pushed)
        /\ caller' = [caller EXCEPT !.phase = AfterSend(last'.res, "Streaming")]

\* Streaming: the server sends an Item
StreamItem ==
    \E pushed \in Pushes :
        /\ caller.phase = "Streaming"
        /\ Steps < MaxSteps
        /\ Sent(Item(Insert(EmptyMap, "x", PosInt(1))), pushed)
        /\ caller' = [caller EXCEPT !.phase = AfterSend(last'.res, "Streaming")]

\* Streaming: the caller asks for a next or a suspend
StreamNext ==
    /\ caller.phase = "Streaming"
    /\ Steps < MaxSteps
    /\ Received("recv_next_or_suspend")
    /\ caller' = [caller EXCEPT
                    !.phase = AfterReceive(last'.res, "Streaming", "Suspending")]

\* Streaming: the server sends Done and the cycle is over
FinishTask ==
    \E pushed \in Pushes :
        /\ caller.phase = "Streaming"
        /\ Steps < MaxSteps
        /\ Sent(Done, pushed)
        /\ caller' = [phase |-> AfterSend(last'.res, "AwaitingTask"),
                      done |-> caller.done + 1]

\* Suspending: the server sends Suspended(id) and the cycle is over
SuspendTask ==
    \E pushed \in Pushes :
        /\ caller.phase = "Suspending"
        /\ Steps < MaxSteps
        /\ Sent(Suspended(1), pushed)
        /\ caller' = [caller EXCEPT !.phase = AfterSend(last'.res, "AwaitingTask")]

\* Rejecting: the server answers Canceled or UnexpectedState with a Reject
RejectTask ==
    \E pushed \in Pushes :
        /\ caller.phase = "Rejecting"
        /\ Steps < MaxSteps
        /\ Sent(Reject("no"), pushed)
        /\ caller' = [caller EXCEPT !.phase = AfterSend(last'.res, "AwaitingTask")]

NextCycle ==
    \/ AwaitTask
    \/ StartTask
    \/ StreamItem
    \/ StreamNext
    \/ FinishTask
    \/ SuspendTask
    \/ RejectTask

SpecCycle == InitCycle /\ [][NextCycle]_vars

(***************************************************************************)
(* What the last receive pulled, read off the wire text.                   *)
(***************************************************************************)
LastRecv == last.op \in {"recv_request_or_resume", "recv_next_or_suspend"}
\* the last operation was a receive whose pull returned a text
HasText == LastRecv /\ last.pulled.ok /\ last.pulled.v.some
Text == last.pulled.v.v
\* the text is a JSON object
IsJsonObject == HasText /\ Text.t = "obj"
Fields == ParseMembers(Text.m)
\* the object's "event" field is a string
HasEvent == IsJsonObject /\ "event" \in DOMAIN Fields /\ Fields["event"].t = "String"
Event == Fields["event"].s
EventIs(e) == HasEvent /\ Event = e
HasData == IsJsonObject /\ "data" \in DOMAIN Fields
Data == Fields["data"]
\* the Input the message decodes to, or the decode error
Decoded == recv(last.pulled)

IsErr(res, name) == ~res.ok /\ res.e.err = name
IsUsual(res) == res.ok /\ res.v.alt = "Usual"
IsUnusual(res) == res.ok /\ res.v.alt = "Unusual"

(***************************************************************************)
(* C1: recv_request_or_resume, on a message that decodes: a request gives  *)
(* the (service, Request) alternative, a resume gives the TaskId           *)
(* alternative, a next (with or without data) or a suspend gives           *)
(* UnexpectedState; no Next or Suspend value is ever returned.             *)
(***************************************************************************)
C1_RequestOrResume ==
    (last.op = "recv_request_or_resume" /\ HasText /\ Decoded.ok) =>
        /\ EventIs("request") =>
              /\ IsUsual(last.res)
              /\ last.res.v.v = <<Decoded.v.service, Decoded.v.request>>
        /\ EventIs("resume") =>
              /\ IsUnusual(last.res)
              /\ last.res.v.v = Decoded.v.task_id
        /\ (EventIs("next") \/ EventIs("suspend")) =>
              IsErr(last.res, "UnexpectedState")
        /\ last.res.ok => Decoded.v.tag \in {"Request", "Resume"}

\* a next message carrying a request was refused by recv_request_or_resume
C1_Witness ==
    /\ last.op = "recv_request_or_resume"
    /\ EventIs("next")
    /\ Decoded.ok
    /\ Decoded.v.request.some
    /\ IsErr(last.res, "UnexpectedState")

(***************************************************************************)
(* C2: recv_next_or_suspend, on a message that decodes: a next gives the   *)
(* Option<Request> alternative, a suspend gives the unit alternative, a    *)
(* request or a resume gives UnexpectedState; no service request and no    *)
(* TaskId is ever returned.                                                *)
(***************************************************************************)
C2_NextOrSuspend ==
    (last.op = "recv_next_or_suspend" /\ HasText /\ Decoded.ok) =>
        /\ EventIs("next") =>
              /\ IsUsual(last.res)
              /\ last.res.v.v = Decoded.v.request
        /\ EventIs("suspend") =>
              /\ IsUnusual(last.res)
              /\ last.res.v.v = Unit
        /\ (EventIs("request") \/ EventIs("resume")) =>
              IsErr(last.res, "UnexpectedState")
        /\ last.res.ok => Decoded.v.tag \in {"Next", "Suspend"}

\* a resume message naming a task was refused by recv_next_or_suspend
C2_Witness ==
    /\ last.op = "recv_next_or_suspend"
    /\ EventIs("resume")
    /\ Decoded.ok
    /\ Decoded.v.task_id = 1
    /\ IsErr(last.res, "UnexpectedState")

(***************************************************************************)
(* C3: a pulled JSON object whose "event" is the string "cancel" makes     *)
(* either receive wrapper fail with Canceled, after any earlier receives   *)
(* and sends and whatever "data" or other fields it carries.               *)
(***************************************************************************)
C3_CancelAlwaysCanceled ==
    EventIs("cancel") => IsErr(last.res, "Canceled")

\* a cancel that carries data, pulled after an earlier send, was Canceled
C3_Witness ==
    /\ last.op = "recv_next_or_suspend"
    /\ pushes > 0
    /\ EventIs("cancel")
    /\ HasData
    /\ IsErr(last.res, "Canceled")

(***************************************************************************)
(* C4: a pulled JSON object whose "event" is a string outside request,     *)
(* next, resume, suspend, cancel makes either receive wrapper fail with    *)
(* IllegalEventName carrying exactly that string, and the message is not   *)
(* skipped: the receive that reports it has pulled once.                   *)
(***************************************************************************)
C4_UnknownEventReported ==
    /\ [](HasEvent /\ Event \notin EventNames =>
            /\ IsErr(last.res, "IllegalEventName")
            /\ last.res.e.event = Event)
    /\ [][pulls' # pulls => pulls' = pulls + 1 /\ LastRecv']_vars

\* the event name "Cancel" was reported by recv_request_or_resume
C4_Witness ==
    /\ last.op = "recv_request_or_resume"
    /\ EventIs("Cancel")
    /\ last.res = Err(IllegalEventName("Cancel"))

(***************************************************************************)
(* C5: a message with event "request": "data" absent gives                 *)
(* DataNotProvided; "data" present but no object (null included) gives     *)
(* IllegalDataFormat; "data" an object whose "service" is no string, or    *)
(* "action" no string, or "payload" no object gives IllegalRequestFormat;  *)
(* an Input::Request comes out only when all three are well-typed.         *)
(***************************************************************************)
FieldIs(o, k, t) == k \in DOMAIN o /\ o[k].t = t
DataIsObject == HasData /\ Data.t = "Object"
RequestFields ==
    /\ DataIsObject
    /\ FieldIs(Data.o, "service", "String")
    /\ FieldIs(Data.o, "action", "String")
    /\ FieldIs(Data.o, "payload", "Object")

NextFields ==
    /\ DataIsObject
    /\ FieldIs(Data.o, "action", "String")
    /\ FieldIs(Data.o, "payload", "Object")
\* recv_next_or_suspend handed the caller the Option<Request> x
NextYields(x) ==
    last.op = "recv_next_or_suspend" => IsUsual(last.res) /\ last.res.v.v = x

C6_NextDecoding ==
    EventIs("next") =>
        /\ (~HasData \/ Data.t = "Null") => NextYields(None)
        /\ NextFields =>
              NextYields(Some([action |-> Data.o["action"].s,
                               payload |-> Data.o["payload"].o]))
        /\ (DataIsObject /\ ~NextFields) => IsErr(last.res, "IllegalRequestFormat")
        /\ (HasData /\ Data.t \notin {"Object", "Null"}) =>
              IsErr(last.res, "IllegalDataFormat")

\* a next whose "data" is an explicit null was accepted as Next(None)
C6_Witness ==
    /\ last.op = "recv_next_or_suspend"
    /\ EventIs("next")
    /\ HasData
    /\ Data.t = "Null"
    /\ IsUsual(last.res)
    /\ last.res.v.v = None

(***************************************************************************)
(* C7: a message with event "resume": Resume(id) comes out only when       *)
(* "data" is a non-negative integer within the TaskId range; non-numeric   *)
(* "data" gives IllegalDataFormat; a negative number or a number beyond    *)
(* the TaskId range gives IllegalTaskId.                                   *)
(***************************************************************************)
\* the literal written for "data" (the last one, when the key is repeated)
DataText ==
    LET at == {i \in DOMAIN Text.m : Text.m[i][1] = "data"}
    IN  Text.m[CHOOSE i \in at : \A j \in at : j <= i][2]
\* the TaskId range is 0 .. 2^usizeBits - 1
InTaskIdRange(x) == x.t = "num" /\ ~x.neg /\ ~x.frac /\ x.mag < Pow2(usizeBits)
Negative(x) == x.t = "num" /\ x.neg /\ x.mag > 0
BeyondTaskIdRange(x) == x.t = "num" /\ ~x.neg /\ ~x.frac /\ x.mag >= Pow2(usizeBits)

C7_ResumeDecoding ==
    (EventIs("resume") /\ HasData) =>
        /\ Decoded.ok => InTaskIdRange(DataText)
        /\ DataText.t # "num" => IsErr(last.res, "IllegalDataFormat")
        /\ (Negative(DataText) \/ BeyondTaskIdRange(DataText)) =>
              IsErr(last.res, "IllegalTaskId")

(***************************************************************************)
(* C8: for every pulled text a receive ends in one typed outcome, an       *)
(* accepted value or an Error: text that is no JSON, or JSON whose top     *)
(* level is no object, gives IllegalJsonFormat; an object whose "event"    *)
(* is missing or no string gives IllegalEventType.                         *)
(***************************************************************************)
ErrorNames ==
    {"IllegalJsonFormat", "IllegalEventType", "IllegalEventName", "IllegalMessage",
     "IllegalDataFormat", "IllegalTaskId", "IllegalRequestFormat", "ServiceNotFound",
     "DataNotProvided", "UnexpectedState", "Canceled", "ConnectionClosed",
     "ConnectorFail", "WorkerFailed", "WorkerNotFound", "CannotSuspend"}

C8_TypedOutcome ==
    HasText =>
        /\ \/ IsUsual(last.res)
           \/ IsUnusual(last.res)
           \/ ~last.res.ok /\ last.res.e.err \in ErrorNames
        /\ ~IsJsonObject => IsErr(last.res, "IllegalJsonFormat")
        /\ (IsJsonObject /\ ~HasEvent) => IsErr(last.res, "IllegalEventType")

\* an object whose "event" is an array was refused as IllegalEventType
C8_Witness ==
    /\ IsJsonObject
    /\ "event" \in DOMAIN Fields
    /\ Fields["event"].t = "Array"
    /\ IsErr(last.res, "IllegalEventType")

(***************************************************************************)
(* C9: send(out) pushes one message, the encoding of out, with these       *)
(* fields and no others: Ready {"event":"ready"}; Item(m) {"event":"item", *)
(* "data":m}; Done {"event":"done"}; Reject(msg) {"event":"reject",        *)
(* "data":msg}; Fail(msg) {"event":"fail","data":msg}; Suspended(i)        *)
(* {"event":"suspended","data":i}.  Distinct Outputs give distinct         *)
(* messages.                                                               *)
(***************************************************************************)
\* the text is an object written with the one member "event": name
OnlyEvent(text, name) ==
    text.t = "obj" /\ text.m = <<<<"event", TStr(name)>>>>
\* the text is an object written with two members, in either order:
\* "event": name, and "data": a literal that satisfies Is
EventAndData(text, name, Is(_)) ==
    /\ text.t = "obj"
    /\ Len(text.m) = 2
    /\ \E i, j \in {1, 2} :
          /\ i # j
          /\ text.m[i][1] = "event"
          /\ text.m[i][2] = TStr(name)
          /\ text.m[j][1] = "data"
          /\ Is(text.m[j][2])
\* the literal is an object that reads back as the map m, no key repeated
IsMap(x, m) ==
    /\ x.t = "obj"
    /\ Len(x.m) = Cardinality(DOMAIN m)
    /\ ParseMembers(x.m) = m

Canonical(out, text) ==
    CASE out.tag = "Ready" -> OnlyEvent(text, "ready")
      [] out.tag = "Done" -> OnlyEvent(text, "done")
      [] out.tag = "Item" ->
            EventAndData(text, "item", LAMBDA x : IsMap(x, out.data))
      [] out.tag = "Reject" ->
            EventAndData(text, "reject", LAMBDA x : x = TStr(out.message))
      [] out.tag = "Fail" ->
            EventAndData(text, "fail", LAMBDA x : x = TStr(out.message))
      [] out.tag = "Suspended" ->
            EventAndData(text, "suspended", LAMBDA x : x = TInt(out.task_id))

C10_NoIoAfterClose ==
    /\ [](LastRecv /\ last.pulled.ok /\ ~last.pulled.v.some =>
            IsErr(last.res, "ConnectionClosed"))
    /\ [][closed => pulls' = pulls /\ pushes' = pushes]_vars

(***************************************************************************)
(* C11: request round trip: the message {"event":"request","data":         *)
(* {"service":S,"action":A,"payload":O}} received through                  *)
(* recv_request_or_resume gives the request alternative with service S,    *)
(* action A and a payload equal to O key by key and value by value,        *)
(* whatever the order of the fields and whatever other fields are there.   *)
(***************************************************************************)
Keys(m) == {m[i][1] : i \in DOMAIN m}
\* the literal written for key k (the last one, when the key is repeated)
LastMember(m, k) ==
    LET at == {i \in DOMAIN m : m[i][1] = k}
    IN  m[CHOOSE i \in at : \A j \in at : j <= i][2]
HasMember(x, k, t) ==
    x.t = "obj" /\ k \in Keys(x.m) /\ LastMember(x.m, k).t = t
\* the text is a request message as written by a client
RequestText ==
    /\ IsJsonObject
    /\ HasMember(Text, "event", "str")
    /\ LastMember(Text.m, "event").s = "request"
    /\ HasMember(Text, "data", "obj")
    /\ HasMember(LastMember(Text.m, "data"), "service", "str")
    /\ HasMember(LastMember(Text.m, "data"), "action", "str")
    /\ HasMember(LastMember(Text.m, "data"), "payload", "obj")
WrittenField(k) == LastMember(LastMember(Text.m, "data").m, k)
\* the map holds the members of the object literal, no more and no less
SameMap(map, x) ==
    /\ DOMAIN map = Keys(x.m)
    /\ \A k \in Keys(x.m) : map[k] = ParseValue(LastMember(x.m, k))

C11_RequestRoundTrip ==
    (last.op = "recv_request_or_resume" /\ RequestText) =>
        /\ IsUsual(last.res)
        /\ last.res.v.v[1] = WrittenField("service").s
        /\ last.res.v.v[2].action = WrittenField("action").s
        /\ SameMap(last.res.v.v[2].payload, WrittenField("payload"))

\* a request with a nested payload was handed out
C11_Witness ==
    /\ last.op = "recv_request_or_resume"
    /\ RequestText
    /\ WrittenField("payload") = PayloadNested
    /\ IsUsual(last.res)
    /\ DOMAIN last.res.v.v[2].payload = {"x", "y"}

(***************************************************************************)
(* C12: task cycle: after a request, Ready, Items and nexts, and Done the  *)
(* connection is back in AwaitingTask; a next or a suspend that arrives    *)
(* in AwaitingTask fails with UnexpectedState, one that arrives while      *)
(* Streaming is accepted.                                                  *)
(***************************************************************************)
NextOrSuspendPulled ==
    HasText /\ (EventIs("next") \/ EventIs("suspend")) /\ Decoded.ok

C12_TaskCycle ==
    [][/\ (pulls' # pulls /\ caller.phase = "AwaitingTask" /\ NextOrSuspendPulled') =>
             IsErr(last'.res, "UnexpectedState")
       /\ (pulls' # pulls /\ caller.phase = "Streaming" /\ NextOrSuspendPulled') =>
             last'.res.ok
       /\ (pushes' # pushes /\ caller.phase = "Streaming"
             /\ last'.out = Done /\ last'.res.ok) =>
             caller'.phase = "AwaitingTask" /\ caller'.done = caller.done + 1]_vars

\* request, Ready, an accepted next, Done, and then a next that was refused
C12_Witness ==
    /\ caller.done = 1
    /\ Len(log) = 3
    /\ IsUsual(log[1].res)
    /\ log[2].op = "recv_next_or_suspend"
    /\ IsUsual(log[2].res)
    /\ last.op = "recv_request_or_resume"
    /\ EventIs("next")
    /\ IsErr(last.res, "UnexpectedState")

(***************************************************************************)
(* C13: a TaskId is transported unchanged: the "data" of the message       *)
(* pushed by send(Suspended(i)) is i, and {"event":"resume","data":N}      *)
(* received through recv_request_or_resume gives the TaskId N, never a     *)
(* truncated or wrapped one.                                               *)
(***************************************************************************)
C13_TaskIdUnchanged ==
    /\ (last.op = "send" /\ last.out.tag = "Suspended") =>
          /\ HasMember(last.content, "data", "num")
          /\ LastMember(last.content.m, "data") = TInt(last.out.task_id)
    /\ (last.op = "recv_request_or_resume" /\ EventIs("resume") /\ HasData
          /\ IsUnusual(last.res)) =>
          DataText = TInt(last.res.v.v)

(***************************************************************************)
(* C14: every Request handed to the caller has a non-empty service (where  *)
(* there is one) and a non-empty action: a message whose "service" or      *)
(* "action" is the empty string is refused with an Error.                  *)
(***************************************************************************)
C14_NonEmptyNames ==
    /\ (last.op = "recv_request_or_resume" /\ IsUsual(last.res)) =>
          /\ last.res.v.v[1] # ""
          /\ last.res.v.v[2].action # ""
    /\ (last.op = "recv_next_or_suspend" /\ IsUsual(last.res)
          /\ last.res.v.v.some) =>
          last.res.v.v.v.action # ""

(***************************************************************************)
(* C15: transport faults propagate without retry: a failed pull makes the  *)
(* receive return ConnectorFail with that cause after one pull, a failed   *)
(* push makes send return ConnectorFail with that cause after one push.    *)
(***************************************************************************)
C15_FaultsPropagate ==
    /\ []((LastRecv /\ ~last.pulled.ok) =>
             last.res = Err(ConnectorFail(last.pulled.e)))
    /\ []((last.op = "send" /\ ~last.pushed.ok) =>
             last.res = Err(ConnectorFail(last.pushed.e)))
    /\ [][/\ (pulls' # pulls /\ ~last'.pulled.ok) =>
                pulls' = pulls + 1 /\ pushes' = pushes
          /\ (pushes' # pushes /\ ~last'.pushed.ok) =>
                pushes' = pushes + 1 /\ pulls' = pulls]_vars

\* a pull that failed with "timeout" was reported with that cause
C15_Witness ==
    /\ last.op = "recv_next_or_suspend"
    /\ last.pulled = Err("timeout")
    /\ last.res = Err(ConnectorFail("timeout"))
    /\ pulls = 1

(***************************************************************************)
(* C16: decode and transport errors come before the phase check and pass   *)
(* through both wrappers unchanged, also for a message whose event         *)
(* belongs to the other phase; UnexpectedState is returned only for a      *)
(* message that decoded.                                                   *)
(***************************************************************************)
C16_ErrorsUnchanged ==
    LastRecv =>
        /\ ~Decoded.ok => last.res = Err(Decoded.e)
        /\ IsErr(last.res, "UnexpectedState") => Decoded.ok
        /\ (last.op = "recv_next_or_suspend" /\ EventIs("resume") /\ HasData
              /\ Data.t = "String") => IsErr(last.res, "IllegalDataFormat")
        /\ (last.op = "recv_next_or_suspend" /\ EventIs("request") /\ ~HasData) =>
              IsErr(last.res, "DataNotProvided")
        /\ (last.op = "recv_request_or_resume" /\ EventIs("next") /\ HasData
              /\ Data.t = "Number") => IsErr(last.res, "IllegalDataFormat")

\* a request without data was refused by recv_next_or_suspend for its data
C16_Witness ==
    /\ last.op = "recv_next_or_suspend"
    /\ EventIs("request")
    /\ ~HasData
    /\ IsErr(last.res, "DataNotProvided")

(***************************************************************************)
(* C17: frame of the operations: Context::new pulls and pushes nothing; a  *)
(* receive pulls once and pushes nothing; send pushes once and pulls       *)
(* nothing; none of them changes the Session, which only the caller        *)
(* writes.                                                                 *)
(***************************************************************************)
C17_Frame ==
    /\ (last.op = "new" /\ pulls = 0 /\ pushes = 0)
    /\ [][\/ /\ LastRecv'
             /\ pulls' = pulls + 1
             /\ pushes' = pushes
             /\ session' = session
          \/ /\ last'.op = "send"
             /\ pushes' = pushes + 1
             /\ pulls' = pulls
             /\ session' = session
          \/ /\ session' # session
             /\ pulls' = pulls
             /\ pushes' = pushes
             /\ last' = last]_vars

\* the caller wrote the Session, then a send left it as written
C17_Witness ==
    /\ session = 1
    /\ last.op = "send"
    /\ pushes = 1
    /\ pulls = 0

(***************************************************************************)
(* C18: messages are consumed in order, each at most once: the k-th        *)
(* receive reports on the k-th message of the Flow, and a message refused  *)
(* with UnexpectedState or a decode error is gone: no later receive        *)
(* delivers it.                                                            *)
(***************************************************************************)
Written(k) ==
    IF k <= Len(flow.wire) THEN Ok(Some(flow.wire[k])) ELSE Ok(None)

C18_InOrderOnce ==
    /\ Len(log) = pulls
    /\ flow.at = pulls
    /\ \A k \in DOMAIN log : log[k].pulled = Written(k)

\* a next refused by recv_request_or_resume was not there for
\* recv_next_or_suspend, which reported on the message after it
C18_Witness ==
    /\ Len(log) = 2
    /\ Len(flow.wire) >= 2
    /\ log[1].op = "recv_request_or_resume"
    /\ log[1].pulled = Ok(Some(Message(TStr("next"), Absent)))
    /\ IsErr(log[1].res, "UnexpectedState")
    /\ log[2].op = "recv_next_or_suspend"
    /\ flow.wire[2] # flow.wire[1]
    /\ log[2].pulled = Ok(Some(flow.wire[2]))

ReceiveErrors ==
    {"IllegalJsonFormat", "IllegalEventType", "IllegalEventName",
     "IllegalDataFormat", "IllegalRequestFormat", "IllegalTaskId",
     "DataNotProvided", "UnexpectedState", "Canceled", "ConnectionClosed",
     "ConnectorFail"}

C20_ErrorsConfined ==
    /\ (LastRecv /\ ~last.res.ok) => last.res.e.err \in ReceiveErrors
    /\ (last.op = "send" /\ ~last.res.ok) => last.res.e.err = "ConnectorFail"

\* JSON whose top level is an array was refused with an error of the list
C20_Witness ==
    /\ HasText
    /\ Text.t = "arr"
    /\ ~last.res.ok
    /\ last.res.e.err \in ReceiveErrors

=============================================================================
